---- MODULE Spec2Model ----
(***************************************************************************)
(* A model of pydantic-ai-rlm's sandboxed REPL (repl.py), its process-wide *)
(* registry and the execute_code tool (toolset.py).                        *)
(*                                                                         *)
(* Python objects are modelled by small identifiers: a dependency bundle   *)
(* is a number in Bundles, its id() an address in Addrs, a REPLEnvironment *)
(* is named by the tool call that constructed it (a call constructs at     *)
(* most one).  Submitted code is a sequence of abstract source lines.      *)
(* Strings are sequences of characters; the repr of a value is one         *)
(* character.                                                              *)
(***************************************************************************)
EXTENDS Integers, Sequences, FiniteSets, TLC

\* ------------------------------------------------------------------ bounds
MaxCalls == 2
MaxBundles == 2
MaxAddrs == 2

Calls == 1..MaxCalls
Sessions == Calls
Bundles == 1..MaxBundles
Addrs == 1..MaxAddrs

\* ------------------------------------------------------- program constants
DefaultCodeTimeout == 60
FactoryCodeTimeout == 60
DefaultTruncateOutputChars == 50000

\* ------------------------------------------------------------ Python values
Undef == "undef"
NoneValue == "None"
Module == "module"
FileObject == "file"
Function == "function"
Builtins == "builtins"
Val == {"1", "2"}
PyTrue == "True"
PyFalse == "False"

\* RLMConfig.sub_model: a model id
SubModel == "openai:gpt-5-mini"

\* what model_request_sync gives llm_query: a response with a text part, an
\* exception, or a response without text parts
ModelText == "hello"
ModelError == "model error"
ModelEmpty == "no text parts"
Replies == {ModelText, ModelError, ModelEmpty}

\* the strings llm_query returns besides the response text
QueryErrorText == "Error querying sub-LLM: "
EmptyString == ""

\* the characters of captured text
Newline == "\n"

Names == {"x", "sys", "context", "f", "json", "llm_query", "eval", "__builtins__"}

EmptyNamespace == [n \in Names |-> Undef]

\* RLMConfig(code_timeout, truncate_output_chars, sub_model)
RLMConfig(t, m, s) == [code_timeout |-> t, truncate_output_chars |-> m, sub_model |-> s]

DefaultConfig == RLMConfig(DefaultCodeTimeout, DefaultTruncateOutputChars, NoneValue)

\* The context payloads and configurations callers build bundles from: a text
\* payload, a dict payload, and a dict whose keys json.dump cannot serialize.
TextContext == "text"
JsonContext == "json"
BadContext == "unserializable"

RLMDependencies(ctx, cfg) == [context |-> ctx, config |-> cfg]

BundleValues ==
    { RLMDependencies(TextContext, DefaultConfig),
      RLMDependencies(JsonContext, RLMConfig(5, 1, NoneValue)),
      RLMDependencies(BadContext, DefaultConfig) }

\* the bundles of the sequential and two-session runs of execute: the default
\* configuration, one with a sub-model and a limit of 2 characters, one with a
\* limit of 1 character
ReplBundleValues ==
    { RLMDependencies(TextContext, DefaultConfig),
      RLMDependencies(TextContext, RLMConfig(DefaultCodeTimeout, 2, SubModel)),
      RLMDependencies(TextContext, RLMConfig(DefaultCodeTimeout, 1, NoneValue)) }

\* the configurations of the runs that look at construction: every
\* combination of a zero or positive timeout, a zero or positive limit, and no,
\* an empty or a proper model id
ConfigValues ==
    { RLMConfig(t, m, sm) : t \in {0, DefaultCodeTimeout},
                            m \in {0, DefaultTruncateOutputChars},
                            sm \in {NoneValue, EmptyString, SubModel} }

ConfigBundleValues == { RLMDependencies(TextContext, cfg) : cfg \in ConfigValues }

\* ------------------------------------------------------------ source lines
Assign(n, v) == [op |-> "assign", name |-> n, val |-> v]
Ref(n) == [op |-> "ref", name |-> n, val |-> Undef]
Raise == [op |-> "raise", name |-> Undef, val |-> Undef]
Import(m) == [op |-> "import", name |-> m, val |-> Undef]
SysExit == [op |-> "exit", name |-> "sys", val |-> Undef]
\* from builtins import n
FromImport(n) == [op |-> "from", name |-> n, val |-> Undef]
\* n(...): a call of the name n; v is what the callee computes from its
\* argument (for llm_query: what the sub-model gives)
Call(n, v) == [op |-> "call", name |-> n, val |-> v]
\* v == w, on two literals
Compare(v, w) == [op |-> "compare", name |-> v, val |-> w]
\* an empty line
Blank == [op |-> "blank", name |-> Undef, val |-> Undef]
\* print(v)
PrintLine(v) == [op |-> "print", name |-> Undef, val |-> v]

\* x = 1 | x = 2 | x | raise ValueError("boom") | import sys \n sys.exit(1)
Programs ==
    { <<Assign("x", "1")>>,
      <<Assign("x", "2")>>,
      <<Ref("x")>>,
      <<Raise>>,
      <<Import("sys"), SysExit>> }

\* the programs of the sequential and two-session runs of execute
ReplPrograms ==
    { <<Assign("x", "1")>>,
      <<Ref("x")>>,
      <<Raise>>,
      <<Blank>>,
      <<Compare("1", "1")>>,
      <<Call("eval", "2")>>,
      <<FromImport("eval")>>,
      <<Assign("context", "1")>>,
      <<Ref("context")>> }
      \cup { <<Call("llm_query", r)>> : r \in Replies }

\* the programs of the runs that look at the order in which execute runs the
\* lines:  print(1) \n x  |  x = 1 \n x \n x = 2 \n x  |  import sys \n sys = 1  |
\* sys  |  x = 1 \n raise ValueError("boom")  |  x = 2  |  x
ExecPrograms ==
    { <<PrintLine("1"), Ref("x")>>,
      <<Assign("x", "1"), Ref("x"), Assign("x", "2"), Ref("x")>>,
      <<Import("sys"), Assign("sys", "1")>>,
      <<Ref("sys")>>,
      <<Assign("x", "1"), Raise>>,
      <<Assign("x", "2")>>,
      <<Ref("x")>> }

\* ------------------------------------------------------- Python evaluation
NoExc == "none"

\* BLOCKED_BUILTINS: the names the built-ins table binds to None
BLOCKED_BUILTINS == {"eval", "exec", "compile", "globals", "locals", "input", "__builtins__"}

\* llm_query(prompt), the sub-model giving reply
llm_query(reply) ==
    CASE reply = ModelError -> QueryErrorText
      [] reply = ModelEmpty -> EmptyString
      [] OTHER -> reply

\* the evaluation of the call expression n(...): the name is looked up in the
\* namespace, then in its __builtins__ table
CallLine(l, ns) ==
    LET callee == IF ns[l.name] # Undef THEN ns[l.name]
                  ELSE IF l.name \in BLOCKED_BUILTINS THEN NoneValue
                  ELSE Undef
    IN CASE callee = Undef -> [value |-> NoneValue, exc |-> "NameError"]
         [] callee = Function ->
              [value |-> IF l.name = "llm_query" THEN llm_query(l.val) ELSE l.val,
               exc |-> NoExc]
         [] OTHER -> [value |-> NoneValue, exc |-> "TypeError"]

\* exec() of one statement in a namespace
ExecLine(l, ns) ==
    CASE l.op = "assign" -> [ns |-> [ns EXCEPT ![l.name] = l.val], exc |-> NoExc]
      [] l.op = "import" -> [ns |-> [ns EXCEPT ![l.name] = Module], exc |-> NoExc]
      [] l.op = "ref" ->
           [ns |-> ns, exc |-> IF ns[l.name] = Undef THEN "NameError" ELSE NoExc]
      [] l.op = "exit" ->
           [ns |-> ns, exc |-> IF ns[l.name] = Undef THEN "NameError" ELSE "SystemExit"]
      [] l.op = "raise" -> [ns |-> ns, exc |-> "Exception"]
      [] l.op = "from" -> [ns |-> [ns EXCEPT ![l.name] = Function], exc |-> NoExc]
      [] l.op = "call" -> [ns |-> ns, exc |-> CallLine(l, ns).exc]
      [] l.op \in {"compare", "blank", "print"} -> [ns |-> ns, exc |-> NoExc]

\* what the statement writes to sys.stdout when it is executed
Printed(l) == IF l.op = "print" THEN <<l.val, Newline>> ELSE <<>>

\* exec() of a sequence of statements: stops at the first exception; out is
\* what the statements printed
RECURSIVE ExecLines(_, _)
ExecLines(ls, ns) ==
    IF ls = <<>> THEN [ns |-> ns, exc |-> NoExc, out |-> <<>>]
    ELSE LET r == ExecLine(Head(ls), ns)
             rest == ExecLines(Tail(ls), r.ns)
         IN IF r.exc # NoExc THEN [ns |-> r.ns, exc |-> r.exc, out |-> <<>>]
            ELSE [rest EXCEPT !.out = Printed(Head(ls)) \o @]

\* eval() of an expression line: its value, or the exception it raises
EvalLine(l, ns) ==
    CASE l.op = "ref" ->
           IF ns[l.name] = Undef THEN [value |-> NoneValue, exc |-> "NameError"]
           ELSE [value |-> ns[l.name], exc |-> NoExc]
      [] l.op = "exit" ->
           [value |-> NoneValue,
            exc |-> IF ns[l.name] = Undef THEN "NameError" ELSE "SystemExit"]
      [] l.op = "call" -> CallLine(l, ns)
      [] l.op = "compare" ->
           [value |-> IF l.name = l.val THEN PyTrue ELSE PyFalse, exc |-> NoExc]
      [] OTHER -> [value |-> NoneValue, exc |-> "SyntaxError"]

\* ---------------------------------------------------------------- strings
Repr(v) == <<v>>
ErrorText(e) == <<Newline, "Error: ", e>>
TruncationMarker == <<Newline, "... (output truncated)">>

\* a truncation that returns the text as it is
Truncate_KeepAll(text, max_chars) == text

\* stdout_content[:max_chars] + "\n... (output truncated)" when too long
Truncate(text, max_chars) ==
    IF Len(text) > max_chars
    THEN SubSeq(text, 1, max_chars) \o TruncationMarker
    ELSE text

\* ----------------------------------------- REPLEnvironment.execute, the body
\* stripped.startswith(("import ", "from "))
IsImportLine(l) == l.op \in {"import", "from"}

\* line.strip() and not line.strip().startswith("#")
IsCodeLine(l) == l.op \notin {"blank", "comment"}

\* the test of lines 408-435 on the text of the last line
IsExpression(l) ==
    /\ l.op \notin {"import", "from", "raise"}
    /\ l.op \notin {"assign", "compare"}
    /\ l.op # "print"

\* except (SyntaxError, NameError)
FallsBack(e) == e \in {"SyntaxError", "NameError"}

\* except Exception: SystemExit derives from BaseException only
IsException(e) == e \notin {NoExc, "SystemExit"}

\* the first index whose line has the text of the last line (1-based)
FirstIndexOf(lines, last) ==
    CHOOSE i \in 1..Len(lines) :
        /\ lines[i] = last
        /\ \A j \in 1..(i - 1) : lines[j] # last

\* {**self.globals, **self.locals}
Combined(g, l) == [n \in Names |-> IF l[n] # Undef THEN l[n] ELSE g[n]]

\* a merge that only refreshes the names the store already holds
MergeLocals_KnownNamesOnly(g, l, combined) ==
    [n \in Names |-> IF l[n] # Undef /\ combined[n] # Undef /\ g[n] = Undef
                     THEN combined[n] ELSE l[n]]

\* for key, value in combined.items(): if key not in self.globals: self.locals[key] = value
MergeLocals(g, l, combined) ==
    [n \in Names |-> IF combined[n] # Undef /\ g[n] = Undef THEN combined[n] ELSE l[n]]

\* _execute_with_expression_display(code, lines, namespace): the namespace
\* afterwards, what was printed, the exception that leaves it, and the value
\* eval gave the last line (its local variable result)
ExecuteWithExpressionDisplay(lines, ns) ==
    LET non_comment_lines == SelectSeq(lines, IsCodeLine)
        whole == ExecLines(lines, ns)
    IN IF non_comment_lines = <<>>
       THEN [ns |-> whole.ns, out |-> whole.out, exc |-> whole.exc, value |-> NoneValue]
       ELSE
       LET last_line == non_comment_lines[Len(non_comment_lines)]
           last_line_idx == FirstIndexOf(lines, last_line)
           before == IF Len(non_comment_lines) > 1 /\ last_line_idx > 1
                     THEN ExecLines(SubSeq(lines, 1, last_line_idx - 1), ns)
                     ELSE [ns |-> ns, exc |-> NoExc, out |-> <<>>]
           result == EvalLine(last_line, before.ns)
           tried == IF before.exc # NoExc THEN before.exc ELSE result.exc
           again == ExecLines(lines, before.ns)
       IN IF ~IsExpression(last_line)
          THEN [ns |-> whole.ns, out |-> whole.out, exc |-> whole.exc, value |-> NoneValue]
          ELSE IF tried = NoExc
          THEN [ns |-> before.ns,
                out |-> before.out \o (IF result.value # NoneValue
                                       THEN Repr(result.value) \o <<Newline>> ELSE <<>>),
                exc |-> NoExc,
                value |-> result.value]
          ELSE IF FallsBack(tried)
          THEN [ns |-> again.ns, out |-> before.out \o again.out, exc |-> again.exc,
                value |-> NoneValue]
          ELSE [ns |-> before.ns, out |-> before.out, exc |-> tried, value |-> NoneValue]

\* a try block that merges what the code bound also when the code raised
ExecuteBody_MergeOnError(code, g, l) ==
    LET import_lines == SelectSeq(code, IsImportLine)
        other_lines == SelectSeq(code, LAMBDA x : ~IsImportLine(x))
        imported == ExecLines(import_lines, g)
        shown == ExecuteWithExpressionDisplay(other_lines, Combined(imported.ns, l))
    IN IF imported.exc # NoExc \/ other_lines = <<>>
       THEN [globals |-> imported.ns, locals |-> l, out |-> <<>>, exc |-> imported.exc,
             value |-> NoneValue]
       ELSE [globals |-> imported.ns,
             locals |-> MergeLocals(imported.ns, l, shown.ns),
             out |-> shown.out,
             exc |-> shown.exc,
             value |-> shown.value]

\* the try block of execute (lines 330-367): the session's globals and locals
\* afterwards, the text the code printed, and the exception raised in the block
ExecuteBody(code, g, l) ==
    LET import_lines == SelectSeq(code, IsImportLine)
        other_lines == SelectSeq(code, LAMBDA x : ~IsImportLine(x))
        imported == ExecLines(import_lines, g)
        combined == Combined(imported.ns, l)
        shown == ExecuteWithExpressionDisplay(other_lines, combined)
    IN IF imported.exc # NoExc
       THEN [globals |-> imported.ns, locals |-> l, out |-> <<>>, exc |-> imported.exc,
             value |-> NoneValue]
       ELSE IF other_lines = <<>>
       THEN [globals |-> imported.ns, locals |-> l, out |-> <<>>, exc |-> NoExc,
             value |-> NoneValue]
       ELSE [globals |-> imported.ns,
             locals |-> IF shown.exc = NoExc
                        THEN MergeLocals(imported.ns, l, shown.ns) ELSE l,
             out |-> shown.out,
             exc |-> shown.exc,
             value |-> shown.value]

\* ------------------------------------------------------------------- state
VARIABLES
    toolset,            \* create_rlm_toolset's code_timeout and sub_model
    deps,               \* the RLMDependencies objects: state, address, value
    repl_registry,      \* _repl_registry: id(deps) -> REPLEnvironment (0: no entry)
    env,                \* the REPLEnvironment objects: config, globals, locals
    lock,               \* REPLEnvironment._lock: the call holding it (0: free)
    temp_dir,           \* whether the session's temp_dir exists on disk
    sys_stdout,         \* sys.stdout and sys.stderr: the call whose buffers they are (0: the original streams)
    cwd,                \* the process working directory: a session's temp_dir (0: the original one)
    task,               \* the execute_code coroutines (torn_down: the call found its key missing after a teardown)
    worker              \* the executor threads running REPLEnvironment.execute

vars == <<toolset, deps, repl_registry, env, lock, temp_dir, sys_stdout, cwd, task, worker>>

NoEnv == [created |-> FALSE, config |-> DefaultConfig,
          globals |-> EmptyNamespace, locals |-> EmptyNamespace]

NoAnswer == [kind |-> "none", parts |-> <<>>, vars |-> {}]

NoTask == [pc |-> "new", deps |-> 0, code |-> <<>>, repl_env |-> 0,
           timeout |-> 0, answer |-> NoAnswer, torn_down |-> FALSE]

NoResult == [stdout |-> <<>>, stderr |-> <<>>, locals |-> EmptyNamespace, success |-> TRUE]

NoWorker == [pc |-> "none", old_stdout |-> 0, old_cwd |-> 0, stdout_buffer |-> <<>>,
             stdout_content |-> <<>>, stderr_content |-> <<>>, success |-> TRUE,
             exc |-> NoExc, value |-> NoneValue, result |-> NoResult]

Init ==
    /\ toolset = [code_timeout |-> FactoryCodeTimeout, sub_model |-> NoneValue]
    /\ deps = [b \in Bundles |-> [state |-> "unborn", addr |-> 0,
                                  value |-> RLMDependencies(TextContext, DefaultConfig)]]
    /\ repl_registry = [a \in Addrs |-> 0]
    /\ env = [s \in Sessions |-> NoEnv]
    /\ lock = [s \in Sessions |-> 0]
    /\ temp_dir = [s \in Sessions |-> FALSE]
    /\ sys_stdout = 0
    /\ cwd = 0
    /\ task = [c \in Calls |-> NoTask]
    /\ worker = [c \in Calls |-> NoWorker]

\* ------------------------------------------------------ dependency bundles
\* the coroutine of call c holds ctx.deps from its start to its return
Holds(c, b) == task[c].deps = b /\ task[c].pc \in {"create", "return", "await"}

\* some call has been made with bundle b
Used(b) == \E c \in Calls : task[c].deps = b

\* deps = RLMDependencies(context=..., config=...): a new object, at an address
\* no live object has (the first object's address is called 1). Callers build
\* a bundle to make calls with it: the one built before has been used.
NewDeps(b, a, v) ==
    /\ deps[b].state = "unborn"
    /\ \A p \in Bundles : p < b => deps[p].state # "unborn" /\ Used(p)
    /\ \A p \in Bundles : deps[p].state = "live" => deps[p].addr # a
    /\ b = 1 => a = 1
    /\ deps' = [deps EXCEPT ![b] = [state |-> "live", addr |-> a, value |-> v]]
    /\ UNCHANGED <<toolset, repl_registry, env, lock, temp_dir, sys_stdout, cwd, task, worker>>

\* the caller drops its last reference: the object is freed, its address is
\* free for the next object
DropDeps(b) ==
    /\ deps[b].state = "live"
    /\ \A c \in Calls : ~Holds(c, b)
    /\ Used(b)
    /\ \E p \in Bundles : deps[p].state = "unborn"
    /\ deps' = [deps EXCEPT ![b].state = "dead"]
    /\ UNCHANGED <<toolset, repl_registry, env, lock, temp_dir, sys_stdout, cwd, task, worker>>

\* id(ctx.deps)
Id(b) == deps[b].addr

\* -------------------------------------------------------------- the answers
\* an exception that leaves execute_code
Raised == [kind |-> "raised", parts |-> <<>>, vars |-> {}]

\* f"Error: Code execution timed out after {code_timeout} seconds."
TimeoutMessage == [kind |-> "timeout", parts |-> <<>>, vars |-> {}]

\* f"Error executing code: {e!s}"
ErrorMessage == [kind |-> "error", parts |-> <<>>, vars |-> {}]

\* text.strip(): what is left of a text without its leading and trailing
\* whitespace is empty or not
StripsToEmpty(text) == \A i \in 1..Len(text) : text[i] \in {Newline, " "}

\* the names of result.locals that do not start with an underscore and are
\* not context, json, re or os
user_vars(result) ==
    {n \in Names : /\ result.locals[n] # Undef
                   /\ n \notin {"__builtins__"}
                   /\ n \notin {"context", "json", "re", "os"}}

\* format_repl_result(result): the sections of the report and the variables listed
format_repl_result(result) ==
    LET parts == (IF ~StripsToEmpty(result.stdout) THEN <<"Output">> ELSE <<>>)
                 \o (IF ~StripsToEmpty(result.stderr) THEN <<"Errors">> ELSE <<>>)
                 \o (IF user_vars(result) # {} THEN <<"Variables">> ELSE <<>>)
                 \o <<"Execution time">>
    IN IF parts = <<>>
       THEN [kind |-> "no output", parts |-> <<>>, vars |-> {}]
       ELSE [kind |-> "report", parts |-> parts, vars |-> user_vars(result)]

\* ------------------------------------------------- REPLEnvironment.__init__
\* if self.config.sub_model: None and the empty string are false
Truthy(sub_model) == sub_model \notin {NoneValue, EmptyString}

\* a constructor that binds llm_query whatever the configuration
InitialGlobals_AlwaysQuery(config) ==
    [n \in Names |->
        CASE n = "__builtins__" -> Builtins
          [] n = "llm_query" -> Function
          [] OTHER -> Undef]

\* _create_builtins and _setup_llm_query: the globals of a new environment
InitialGlobals(config) ==
    [n \in Names |->
        CASE n = "__builtins__" -> Builtins
          [] n = "llm_query" /\ Truthy(config.sub_model) -> Function
          [] OTHER -> Undef]

\* _load_context through _execute_internal: the names the load code binds that
\* are not globals and do not start with an underscore
LoadContext(context) ==
    [n \in Names |->
        CASE n = "context" -> context
          [] n = "f" -> FileObject
          [] n = "json" /\ context # TextContext -> Module
          [] OTHER -> Undef]

\* json.dump raises on a payload it cannot serialize; os.getcwd() raises when
\* the working directory has been removed
InitRaises(context) ==
    \/ context = BadContext
    \/ cwd # 0 /\ ~temp_dir[cwd]

NewREPLEnvironment(context, config) ==
    [created |-> TRUE, config |-> config,
     globals |-> InitialGlobals(config), locals |-> LoadContext(context)]

\* ------------------------------------------------------ _get_or_create_repl
\* config = ctx.deps.config or RLMConfig(), overridden when the factory has a
\* sub_model and the config has none
SessionConfig(config) ==
    IF Truthy(toolset.sub_model) /\ ~Truthy(config.sub_model)
    THEN RLMConfig(DefaultCodeTimeout, DefaultTruncateOutputChars, toolset.sub_model)
    ELSE config

\* a lookup that never finds the key
Missing_Always(key) == TRUE

\* deps_id not in _repl_registry
Missing(key) == repl_registry[key] = 0

\* bundle b was used, its session was built, and a teardown has emptied the
\* registry and removed the session's directory
TornDown(b) ==
    /\ \A a \in Addrs : repl_registry[a] = 0
    /\ \E s \in Sessions : env[s].created /\ task[s].deps = b /\ ~temp_dir[s]

\* the agent calls the tool: execute_code(ctx, code) starts, and
\* _get_or_create_repl tests  if deps_id not in _repl_registry
Invoke(c, b) ==
    /\ task[c].pc = "new"
    /\ \A p \in Calls : p < c => task[p].pc # "new"
    /\ deps[b].state = "live"
    /\ task' = [task EXCEPT ![c] =
                  [NoTask EXCEPT !.pc = IF Missing(Id(b)) THEN "create" ELSE "return",
                                 !.deps = b,
                                 !.torn_down = TornDown(b)]]
    /\ UNCHANGED <<toolset, deps, repl_registry, env, lock, temp_dir, sys_stdout, cwd, worker>>

\* _repl_registry[deps_id] = REPLEnvironment(context=..., config=...); an
\* exception of the constructor leaves execute_code, which calls
\* _get_or_create_repl outside its try block
GetCreate(c) ==
    /\ task[c].pc = "create"
    /\ LET d == deps[task[c].deps]
       IN IF InitRaises(d.value.context)
          THEN /\ task' = [task EXCEPT ![c].pc = "returned", ![c].answer = Raised,
                                       ![c].torn_down = FALSE]
               /\ UNCHANGED <<repl_registry, env, temp_dir>>
          ELSE /\ env' = [env EXCEPT ![c] =
                            NewREPLEnvironment(d.value.context, SessionConfig(d.value.config))]
               /\ temp_dir' = [temp_dir EXCEPT ![c] = TRUE]
               /\ repl_registry' = [repl_registry EXCEPT ![d.addr] = c]
               /\ task' = [task EXCEPT ![c].pc = "return", ![c].torn_down = FALSE]
    /\ UNCHANGED <<toolset, deps, lock, sys_stdout, cwd, worker>>

\* return _repl_registry[deps_id], then loop.run_in_executor(None,
\* repl_env.execute, code) under asyncio.wait_for(..., timeout=code_timeout)
GetReturn(c) ==
    /\ task[c].pc = "return"
    /\ LET key == Id(task[c].deps)
       IN IF Missing(key)
          THEN /\ task' = [task EXCEPT ![c].pc = "returned", ![c].answer = Raised]
               /\ UNCHANGED worker
          ELSE /\ task' = [task EXCEPT ![c].pc = "await",
                                       ![c].repl_env = repl_registry[key],
                                       ![c].timeout = toolset.code_timeout]
               /\ worker' = [worker EXCEPT ![c].pc = "queued"]
    /\ UNCHANGED <<toolset, deps, repl_registry, env, lock, temp_dir, sys_stdout, cwd>>

\* --------------------------------------------------- REPLEnvironment.execute
\* an execute that does not take the lock
Acquirable_NoLock(s) == TRUE

\* with self._lock: the lock can be taken when no call holds it
Acquirable(s) == lock[s] = 0

\* os.getcwd() and os.chdir(self.temp_dir) raise FileNotFoundError on a removed directory
EnterRaises(s) ==
    \/ cwd # 0 /\ ~temp_dir[cwd]
    \/ ~temp_dir[s]

\* one dict shared by every environment (a class attribute)
SetLocals_SharedDict(e, s, new) == [t \in Sessions |-> [e[t] EXCEPT !.locals = new]]

\* self.locals[key] = value, on the environment's own dict
SetLocals(e, s, new) == [e EXCEPT ![s].locals = new]

\* the executor thread starts execute(code)
Start(c) ==
    /\ worker[c].pc = "queued"
    /\ worker' = [worker EXCEPT ![c].pc = "started"]
    /\ UNCHANGED <<toolset, deps, repl_registry, env, lock, temp_dir, sys_stdout, cwd, task>>

\* with (self._lock, self._capture_output() as ..., self._temp_working_directory()):
\* entering the three context managers; a failure of the last unwinds the others
Enter(c) ==
    LET s == task[c].repl_env
    IN /\ worker[c].pc = "started"
       /\ Acquirable(s)
       /\ IF EnterRaises(s)
          THEN /\ worker' = [worker EXCEPT ![c].pc = "done", ![c].exc = "Exception"]
               /\ UNCHANGED <<lock, sys_stdout, cwd>>
          ELSE /\ lock' = [lock EXCEPT ![s] = c]
               /\ sys_stdout' = c
               /\ cwd' = s
               /\ worker' = [worker EXCEPT ![c].pc = "entered",
                                           ![c].old_stdout = sys_stdout,
                                           ![c].old_cwd = cwd]
       /\ UNCHANGED <<toolset, deps, repl_registry, env, temp_dir, task>>

\* the try block: the code runs, what it prints goes to the buffer sys.stdout is
\* at that moment, and the call reads its own buffers. Nothing reads the code
\* argument of execute_code before this block: its value is drawn here.
Run(c, code) ==
    LET s == task[c].repl_env
        r == ExecuteBody(code, env[s].globals, env[s].locals)
        written == [worker EXCEPT ![sys_stdout].stdout_buffer =
                      IF worker[sys_stdout].pc = "entered" THEN @ \o r.out ELSE @]
        w == IF sys_stdout = 0 THEN worker ELSE written
    IN /\ worker[c].pc = "entered"
       /\ env' = SetLocals([env EXCEPT ![s].globals = r.globals], s, r.locals)
       /\ worker' = [w EXCEPT ![c].pc = "ran",
                              ![c].success = (r.exc = NoExc),
                              ![c].value = r.value,
                              ![c].exc = IF IsException(r.exc) THEN NoExc ELSE r.exc,
                              ![c].stdout_content = w[c].stdout_buffer,
                              ![c].stderr_content =
                                  IF IsException(r.exc) THEN ErrorText(r.exc) ELSE <<>>]
       /\ task' = [task EXCEPT ![c].code = code]
       /\ UNCHANGED <<toolset, deps, repl_registry, lock, temp_dir, sys_stdout, cwd>>

\* a with block that keeps the lock when the code raised
Exit_KeepLockOnFault(c) ==
    LET s == task[c].repl_env
    IN /\ worker[c].pc = "ran"
       /\ cwd' = worker[c].old_cwd
       /\ sys_stdout' = worker[c].old_stdout
       /\ lock' = [lock EXCEPT ![s] = IF worker[c].success THEN 0 ELSE @]
       /\ worker' = [worker EXCEPT ![c].pc = IF worker[c].exc = NoExc THEN "exited" ELSE "done"]
       /\ UNCHANGED <<toolset, deps, repl_registry, env, temp_dir, task>>

\* leaving the with block: os.chdir(old_cwd), which raises on a removed
\* directory; the streams are restored and the lock is released
Exit(c) ==
    LET s == task[c].repl_env
        old == worker[c].old_cwd
        gone == old # 0 /\ ~temp_dir[old]
        exc == IF gone THEN "Exception" ELSE worker[c].exc
    IN /\ worker[c].pc = "ran"
       /\ cwd' = IF gone THEN cwd ELSE old
       /\ sys_stdout' = worker[c].old_stdout
       /\ lock' = [lock EXCEPT ![s] = 0]
       /\ worker' = [worker EXCEPT ![c].pc = IF exc = NoExc THEN "exited" ELSE "done",
                                   ![c].exc = exc]
       /\ UNCHANGED <<toolset, deps, repl_registry, env, temp_dir, task>>

\* after the with block: truncation, and REPLResult(..., locals=dict(self.locals), ...)
Finish(c) ==
    LET s == task[c].repl_env
        max_chars == env[s].config.truncate_output_chars
    IN /\ worker[c].pc = "exited"
       /\ worker' = [worker EXCEPT ![c].pc = "done",
                                   ![c].result =
                                       [stdout |-> Truncate(worker[c].stdout_content, max_chars),
                                        stderr |-> Truncate(worker[c].stderr_content, max_chars),
                                        locals |-> env[s].locals,
                                        success |-> worker[c].success]]
       /\ UNCHANGED <<toolset, deps, repl_registry, env, lock, temp_dir, sys_stdout, cwd, task>>

\* -------------------------------------------------------------- execute_code
\* what the awaited future yields: the report, the text of an Exception, or an
\* exception that is no Exception and leaves execute_code
Answer(w) ==
    IF w.exc = NoExc THEN format_repl_result(w.result)
    ELSE IF IsException(w.exc) THEN ErrorMessage
    ELSE Raised

\* a deadline that kills the evaluation whatever its state
CancelFuture_Kill(pc) == "cancelled"

\* asyncio.wait_for cancels the future: a work item that has not started is
\* dropped, a running one runs on
CancelFuture(pc) == IF pc = "queued" THEN "cancelled" ELSE pc

\* the future completes before the deadline
Deliver(c) ==
    /\ task[c].pc = "await"
    /\ worker[c].pc = "done"
    /\ task' = [task EXCEPT ![c].pc = "returned", ![c].answer = Answer(worker[c])]
    /\ UNCHANGED <<toolset, deps, repl_registry, env, lock, temp_dir, sys_stdout, cwd, worker>>

\* except TimeoutError: the deadline passes first
Timeout(c) ==
    /\ task[c].pc = "await"
    /\ worker[c].pc # "done"
    /\ task' = [task EXCEPT ![c].pc = "returned", ![c].answer = TimeoutMessage]
    /\ worker' = [worker EXCEPT ![c].pc = CancelFuture(@)]
    /\ UNCHANGED <<toolset, deps, repl_registry, env, lock, temp_dir, sys_stdout, cwd>>

\* ------------------------------------------------- cleanup_repl_environments
Registered(s) == \E a \in Addrs : repl_registry[a] = s

\* for repl_env in _repl_registry.values(): repl_env.cleanup(); _repl_registry.clear()
Cleanup ==
    /\ \E s \in Sessions : Registered(s)
    /\ temp_dir' = [s \in Sessions |-> temp_dir[s] /\ ~Registered(s)]
    /\ repl_registry' = [a \in Addrs |-> 0]
    /\ UNCHANGED <<toolset, deps, env, lock, sys_stdout, cwd, task, worker>>

\* a reference to the environment: the registry's, an awaiting coroutine's, or
\* that of a thread that is to run or is running its execute
Referenced(s) ==
    \/ Registered(s)
    \/ \E c \in Calls : /\ task[c].repl_env = s
                        /\ worker[c].pc \in {"queued", "started", "entered", "ran", "exited"}

\* __del__: an environment nothing refers to any more removes its directory
Del(s) ==
    /\ env[s].created
    /\ temp_dir[s]
    /\ ~Referenced(s)
    /\ temp_dir' = [temp_dir EXCEPT ![s] = FALSE]
    /\ UNCHANGED <<toolset, deps, repl_registry, env, lock, sys_stdout, cwd, task, worker>>

\* ------------------------------------------------------------ specification
Next ==
    \/ \E b \in Bundles, a \in Addrs, v \in BundleValues : NewDeps(b, a, v)
    \/ \E b \in Bundles : DropDeps(b)
    \/ \E c \in Calls, b \in Bundles : Invoke(c, b)
    \/ \E c \in Calls : GetCreate(c)
    \/ \E c \in Calls : GetReturn(c)
    \/ \E c \in Calls : Start(c)
    \/ \E c \in Calls : Enter(c)
    \/ \E c \in Calls, code \in Programs : Run(c, code)
    \/ \E c \in Calls : Exit(c)
    \/ \E c \in Calls : Finish(c)
    \/ \E c \in Calls : Deliver(c)
    \/ \E c \in Calls : Timeout(c)
    \/ Cleanup
    \/ \E s \in Sessions : Del(s)

Spec == Init /\ [][Next]_vars

\* the calls that run to their end (no deadline passes, no teardown), with the
\* wider set of programs
ReplNext ==
    \/ \E b \in Bundles, a \in Addrs, v \in ReplBundleValues : NewDeps(b, a, v)
    \/ \E c \in Calls, b \in Bundles : Invoke(c, b)
    \/ \E c \in Calls : GetCreate(c)
    \/ \E c \in Calls : GetReturn(c)
    \/ \E c \in Calls : Start(c)
    \/ \E c \in Calls : Enter(c)
    \/ \E c \in Calls, code \in ReplPrograms : Run(c, code)
    \/ \E c \in Calls : Exit(c)
    \/ \E c \in Calls : Finish(c)
    \/ \E c \in Calls : Deliver(c)

ReplSpec == Init /\ [][ReplNext]_vars

\* the calls that run to their end, on bundles with the default configuration,
\* with the programs that show the order of execution
ExecNext ==
    \/ \E b \in Bundles, a \in Addrs : NewDeps(b, a, RLMDependencies(TextContext, DefaultConfig))
    \/ \E c \in Calls, b \in Bundles : Invoke(c, b)
    \/ \E c \in Calls : GetCreate(c)
    \/ \E c \in Calls : GetReturn(c)
    \/ \E c \in Calls : Start(c)
    \/ \E c \in Calls : Enter(c)
    \/ \E c \in Calls, code \in ExecPrograms : Run(c, code)
    \/ \E c \in Calls : Exit(c)
    \/ \E c \in Calls : Finish(c)
    \/ \E c \in Calls : Deliver(c)

ExecSpec == Init /\ [][ExecNext]_vars

\* bundles built from any configuration, and the sessions built for them
ConfigNext ==
    \/ \E b \in Bundles, a \in Addrs, v \in ConfigBundleValues : NewDeps(b, a, v)
    \/ \E c \in Calls, b \in Bundles : Invoke(c, b)
    \/ \E c \in Calls : GetCreate(c)

ConfigSpec == Init /\ [][ConfigNext]_vars

\* create_rlm_toolset(sub_model="openai:gpt-5-mini"): the toolset has a sub-model
FactoryInit ==
    /\ toolset = [code_timeout |-> FactoryCodeTimeout, sub_model |-> SubModel]
    /\ deps = [b \in Bundles |-> [state |-> "unborn", addr |-> 0,
                                  value |-> RLMDependencies(TextContext, DefaultConfig)]]
    /\ repl_registry = [a \in Addrs |-> 0]
    /\ env = [s \in Sessions |-> NoEnv]
    /\ lock = [s \in Sessions |-> 0]
    /\ temp_dir = [s \in Sessions |-> FALSE]
    /\ sys_stdout = 0
    /\ cwd = 0
    /\ task = [c \in Calls |-> NoTask]
    /\ worker = [c \in Calls |-> NoWorker]

\* the sessions built under that toolset for the bundles of the other runs
FactoryNext ==
    \/ \E b \in Bundles, a \in Addrs, v \in BundleValues \cup ReplBundleValues : NewDeps(b, a, v)
    \/ \E c \in Calls, b \in Bundles : Invoke(c, b)
    \/ \E c \in Calls : GetCreate(c)

FactorySpec == FactoryInit /\ [][FactoryNext]_vars

\* the REPLResults format_repl_result is applied to: empty, blank and
\* non-blank output and error text, and every subset of four names bound
FormatResults ==
    { [stdout |-> o, stderr |-> e, success |-> e = <<>>,
       locals |-> [n \in Names |-> IF n \in bound THEN "1" ELSE Undef]] :
        o \in {<<>>, <<Newline>>, <<"1", Newline>>},
        e \in {<<>>, <<Newline>>, ErrorText("Exception")},
        bound \in SUBSET {"x", "context", "f", "json"} }

\* execute has returned the result, and execute_code awaits it
FormatInit ==
    /\ toolset = [code_timeout |-> FactoryCodeTimeout, sub_model |-> NoneValue]
    /\ deps = [b \in Bundles |-> [state |-> "unborn", addr |-> 0,
                                  value |-> RLMDependencies(TextContext, DefaultConfig)]]
    /\ repl_registry = [a \in Addrs |-> 0]
    /\ env = [s \in Sessions |-> NoEnv]
    /\ lock = [s \in Sessions |-> 0]
    /\ temp_dir = [s \in Sessions |-> FALSE]
    /\ sys_stdout = 0
    /\ cwd = 0
    /\ task = [c \in Calls |-> [NoTask EXCEPT !.pc = "await"]]
    /\ \E r \in FormatResults :
         worker = [c \in Calls |-> IF c = 1 THEN [NoWorker EXCEPT !.pc = "done", !.result = r]
                                   ELSE NoWorker]

\* return format_repl_result(result)
FormatNext == \E c \in Calls : Deliver(c)

FormatSpec == FormatInit /\ [][FormatNext]_vars

\* the calls without teardown
LiveNext ==
    \/ \E b \in Bundles, a \in Addrs, v \in BundleValues : NewDeps(b, a, v)
    \/ \E b \in Bundles : DropDeps(b)
    \/ \E c \in Calls, b \in Bundles : Invoke(c, b)
    \/ \E c \in Calls : GetCreate(c)
    \/ \E c \in Calls : GetReturn(c)
    \/ \E c \in Calls : Start(c)
    \/ \E c \in Calls : Enter(c)
    \/ \E c \in Calls, code \in Programs : Run(c, code)
    \/ \E c \in Calls : Exit(c)
    \/ \E c \in Calls : Finish(c)
    \/ \E c \in Calls : Deliver(c)
    \/ \E c \in Calls : Timeout(c)

\* the timer of asyncio.wait_for fires when the event loop runs: a deadline
\* that stays pending passes. Nothing makes an evaluation end.
LiveSpec == Init /\ [][LiveNext]_vars /\ \A c \in Calls : WF_vars(Timeout(c))

\* the calls of a run whose deadlines do not pass. Every evaluation terminates:
\* an execute that can take its next step takes it
FairNext ==
    \/ \E b \in Bundles, a \in Addrs : NewDeps(b, a, RLMDependencies(TextContext, DefaultConfig))
    \/ \E c \in Calls, b \in Bundles : Invoke(c, b)
    \/ \E c \in Calls : GetCreate(c)
    \/ \E c \in Calls : GetReturn(c)
    \/ \E c \in Calls : Start(c)
    \/ \E c \in Calls : Enter(c)
    \/ \E c \in Calls, code \in Programs : Run(c, code)
    \/ \E c \in Calls : Exit(c)
    \/ \E c \in Calls : Finish(c)
    \/ \E c \in Calls : Deliver(c)

FairSpec ==
    /\ Init /\ [][FairNext]_vars
    /\ \A c \in Calls : /\ WF_vars(Enter(c))
                         /\ WF_vars(\E code \in Programs : Run(c, code))
                         /\ WF_vars(Exit(c))
                         /\ WF_vars(Finish(c))

\* ------------------------------------------------------------------ claims
UserNames == {"x"}

\* the step in which call c's code is evaluated, in the session it resolved
Evaluates(c) == worker[c].pc = "entered" /\ worker'[c].pc = "ran"

\* call c has evaluated its code
Evaluated(c) == worker[c].pc \in {"ran", "exited", "done"} /\ task[c].code # <<>>

\* C1: state persistence. A run() whose code only binds a new variable x and
\* succeeds stores the value in the session's variable store; the store keeps
\* it through every step that is not a run() of that session; and a run() of
\* the session that references x evaluates it to the stored value.
C1_StatePersistence ==
    [][\A c \in Calls, x \in UserNames, v \in Val :
          LET s == task[c].repl_env
          IN /\ ( /\ Evaluates(c)
                  /\ task'[c].code = <<Assign(x, v)>>
                  /\ env[s].locals[x] = Undef /\ env[s].globals[x] = Undef
                  /\ worker'[c].success )
                => env'[s].locals[x] = v
             /\ ( /\ Evaluates(c)
                  /\ task'[c].code = <<Ref(x)>>
                  /\ env[s].locals[x] = v )
                => worker'[c].success /\ worker'[c].value = v
             /\ ( /\ env[c].created
                  /\ env[c].locals[x] = v
                  /\ ~\E d \in Calls : Evaluates(d) /\ task[d].repl_env = c )
                => env'[c].locals[x] = v
      ]_vars

\* C1 witness: one call bound x, and another call of the session evaluated x to
\* the value bound
C1_Witness ==
    \E c, d \in Calls, v \in Val :
        /\ c # d
        /\ task[c].repl_env = task[d].repl_env
        /\ Evaluated(c) /\ task[c].code = <<Assign("x", v)>> /\ worker[c].success
        /\ Evaluated(d) /\ task[d].code = <<Ref("x")>>
        /\ worker[d].success /\ worker[d].value = v

\* the calls that are inside the with block of execute on session s
Evaluating(s) == {c \in Calls : task[c].repl_env = s /\ worker[c].pc \in {"entered", "ran"}}

\* C2: per-session mutual exclusion. At most one run() call per session is
\* inside the critical section, and it is the holder of the session's lock.
C2_MutualExclusion ==
    \A s \in Sessions :
        /\ Cardinality(Evaluating(s)) <= 1
        /\ \A c \in Evaluating(s) : lock[s] = c

\* C2 witness: a call is evaluating while a second call of the same session
\* has started its execute and waits for the lock
C2_Witness ==
    \E c, d \in Calls :
        /\ c # d
        /\ task[c].repl_env = task[d].repl_env
        /\ worker[c].pc = "entered"
        /\ worker[d].pc = "started"

\* C3: session isolation. A run() in one session changes no other session's
\* environment, and a reference to x is resolved in the session's own store
\* only: an x bound elsewhere is neither seen nor a substitute for a missing x.
C3_SessionIsolation ==
    [][\A c \in Calls :
          LET s == task[c].repl_env
          IN Evaluates(c) =>
               /\ \A t \in Sessions : t # s => env'[t] = env[t]
               /\ \A x \in UserNames :
                    task'[c].code = <<Ref(x)>> =>
                      IF env[s].locals[x] = Undef
                      THEN ~worker'[c].success /\ worker'[c].value = NoneValue
                      ELSE worker'[c].value = env[s].locals[x]
      ]_vars

\* C3 witness: two sessions registered under distinct keys; x is bound in one,
\* and the other's reference to x failed and its store has no x
C3_Witness ==
    \E c, d \in Calls, a, b \in Addrs, v \in Val :
        /\ a # b
        /\ repl_registry[a] = task[c].repl_env
        /\ repl_registry[b] = task[d].repl_env
        /\ task[c].repl_env # 0 /\ task[d].repl_env # 0
        /\ Evaluated(c) /\ task[c].code = <<Assign("x", v)>>
        /\ env[task[c].repl_env].locals["x"] = v
        /\ Evaluated(d) /\ task[d].code = <<Ref("x")>> /\ ~worker[d].success
        /\ env[task[d].repl_env].locals["x"] = Undef

\* the session call c resolved still has its scratch directory: no teardown
\* has removed it
Live(c) == task[c].repl_env # 0 /\ temp_dir[task[c].repl_env]

\* C4: identity-based keys. Two calls made with distinct bundle instances never
\* resolve to the same session (while that session has not been torn down).
C4_DistinctBundlesDistinctSessions ==
    \A c, d \in Calls :
        ( /\ task[c].deps # 0 /\ task[d].deps # 0
          /\ task[c].deps # task[d].deps
          /\ Live(c) /\ Live(d) )
        => task[c].repl_env # task[d].repl_env

\* C5: run() never raises on a live session. Once execute has evaluated code
\* and ended on a session whose directory exists, it has produced a result,
\* and a fault of the code shows as success = False with the error text.
C5_RunNeverRaises ==
    \A c \in Calls :
        (worker[c].pc = "done" /\ task[c].code # <<>> /\ Live(c))
        => /\ worker[c].exc = NoExc
           /\ ~worker[c].result.success => worker[c].result.stderr # <<>>

\* C6: execute_code never throws across the tool boundary. Every call that has
\* returned has returned a text answer.
C6_NeverThrows ==
    \A c \in Calls : task[c].pc = "returned" => task[c].answer.kind # "raised"

\* the step in which call c's deadline passes
TimesOut(c) == task[c].pc = "await" /\ task'[c].pc = "returned" /\ task'[c].answer = TimeoutMessage

\* call c has answered with the timeout message
TimedOut(c) == task[c].pc = "returned" /\ task[c].answer = TimeoutMessage

\* C7: on deadline exceeded execute_code answers with the timeout message
\* while the evaluation it started is unfinished and goes on unchanged; what
\* the evaluation binds afterwards is merged into the session's store as for
\* any call, and the rest of that execute leaves the store as it is.
C7_TimeoutKeepsEvaluation ==
    [][\A c \in Calls :
          LET s == task[c].repl_env
          IN /\ (TimesOut(c) /\ worker[c].pc \in {"started", "entered", "ran", "exited"})
                => worker'[c] = worker[c] /\ env' = env /\ lock' = lock
             /\ (TimedOut(c) /\ Evaluates(c))
                => \A x \in UserNames, v \in Val :
                     (task'[c].code = <<Assign(x, v)>> /\ env[s].globals[x] = Undef)
                     => env'[s].locals[x] = v
             /\ (TimedOut(c) /\ worker[c].pc \in {"ran", "exited"} /\ worker'[c] # worker[c])
                => env' = env
      ]_vars

\* C7 witness: a call has answered with the timeout message while its
\* evaluation is inside the with block, holding the session's lock, its code
\* not yet run
C7_Witness ==
    \E c \in Calls :
        /\ TimedOut(c)
        /\ worker[c].pc = "entered"
        /\ lock[task[c].repl_env] = c

\* C8: the deadline of a call is the code_timeout of the configuration its
\* dependency bundle carries.
C8_DeadlineIsConfigTimeout ==
    \A c \in Calls :
        task[c].pc = "await"
        => task[c].timeout = deps[task[c].deps].value.config.code_timeout

\* the step in which call c starts with bundle b
Starts(c, b) == task[c].pc = "new" /\ task'[c].pc # "new" /\ task'[c].deps = b

\* the step in which call c's _get_or_create_repl returns
Returns(c) == task[c].pc = "return" /\ task'[c].pc # "return"

\* C9: idempotent creation. A getOrCreate that finds a session registered for
\* its key does not go on to build one; it and the return of the lookup change
\* no environment, no scratch directory and no registry entry; and the session
\* it hands to the call is the one registered under the key.
C9_IdempotentCreation ==
    [][\A c \in Calls :
          /\ \A b \in Bundles :
               (Starts(c, b) /\ repl_registry[deps[b].addr] # 0)
               => /\ task'[c].pc = "return"
                  /\ env' = env /\ temp_dir' = temp_dir /\ repl_registry' = repl_registry
          /\ Returns(c)
             => /\ env' = env /\ temp_dir' = temp_dir /\ repl_registry' = repl_registry
                /\ task'[c].pc = "await"
                   => task'[c].repl_env = repl_registry[deps[task[c].deps].addr]
      ]_vars

\* C9 witness: a call that found the session another call had built for its
\* bundle was handed that session and built none
C9_Witness ==
    \E c, d \in Calls :
        /\ c # d
        /\ env[c].created /\ ~env[d].created
        /\ task[d].deps = task[c].deps
        /\ task[d].repl_env = c
        /\ env[c].locals["context"] = deps[task[c].deps].value.context

\* the environments built for bundle b whose scratch directory exists
Built(b) == {s \in Sessions : env[s].created /\ temp_dir[s] /\ task[s].deps = b}

\* C10: safe concurrent insertion. However the calls for one key interleave, at
\* most one session, with one scratch directory, is built for it.
C10_OneSessionPerKey ==
    \A b \in Bundles : Cardinality(Built(b)) <= 1

\* the calls whose execute is under way
Running == {c \in Calls : worker[c].pc \in {"queued", "started", "entered", "ran", "exited"}}

\* C11: stream restoration. Once every execute has returned, sys.stdout and
\* sys.stderr are the streams that were installed before the first call.
C11_StreamsRestored ==
    (Running = {} /\ \E c \in Calls : worker[c].pc = "done") => sys_stdout = 0

\* C12: scratch-directory exclusivity. While the code of a call is being
\* evaluated the process working directory is the scratch directory of the
\* call's session.
C12_OwnScratchDirectory ==
    \A c \in Calls : worker[c].pc = "entered" => cwd = task[c].repl_env

\* the step of cleanup_repl_environments
TearsDown == (\E a \in Addrs : repl_registry[a] # 0) /\ (\A a \in Addrs : repl_registry'[a] = 0)

\* C13: teardown. cleanup_repl_environments leaves the registry empty and the
\* directory of every registered session removed; the next call for a bundle
\* used before builds a new session, registered under the key, whose store has
\* none of the variables bound before.
C13_Teardown ==
    [][/\ TearsDown => \A s \in Sessions : Registered(s) => ~temp_dir'[s]
       /\ \A c \in Calls :
            ( /\ task[c].pc = "create" /\ task'[c].pc # "create"
              /\ task[c].torn_down
              /\ deps[task[c].deps].value.context # BadContext )
            => /\ env'[c].created /\ temp_dir'[c]
               /\ repl_registry'[Id(task[c].deps)] = c
               /\ \A x \in UserNames : env'[c].locals[x] = Undef
      ]_vars

\* the last line of the code is a bare expression: no assignment, no header of
\* a control structure, no print call
EndsWithExpression(code) ==
    /\ code # <<>>
    /\ code[Len(code)].op \in {"ref", "call", "compare"}

\* C14: trailing-expression echo. The captured output of a successful run of
\* code whose last line is a bare expression ends with the repr of a value and
\* a newline.
C14_TrailingExpressionEcho ==
    \A c \in Calls :
        (Evaluated(c) /\ worker[c].success /\ EndsWithExpression(task[c].code))
        => LET out == worker[c].stdout_content
           IN /\ Len(out) >= 2
              /\ out[Len(out)] = Newline
              /\ task[c].code[Len(task[c].code)].op = "compare"
                 => out[Len(out) - 1] \in {PyTrue, PyFalse}

\* the text returned for a captured text under the limit L
Truncated(returned, captured, L) ==
    IF Len(captured) > L
    THEN /\ Len(returned) = L + Len(TruncationMarker)
         /\ SubSeq(returned, 1, L) = SubSeq(captured, 1, L)
         /\ SubSeq(returned, L + 1, Len(returned)) = TruncationMarker
    ELSE returned = captured

\* C15: truncation. A captured output or error text longer than the limit is
\* returned as its first L characters followed by the marker; a text of at most
\* L characters is returned unchanged.
C15_Truncation ==
    [][\A c \in Calls :
          (worker[c].pc = "exited" /\ worker'[c].pc = "done")
          => LET L == env[task[c].repl_env].config.truncate_output_chars
             IN /\ Truncated(worker'[c].result.stdout, worker[c].stdout_content, L)
                /\ Truncated(worker'[c].result.stderr, worker[c].stderr_content, L)
      ]_vars

\* C15 witness: one call returned an output longer than its limit cut, and
\* another an output of exactly its limit's length unchanged
C15_Witness ==
    \E c, d \in Calls :
        /\ worker[c].pc = "done" /\ worker[d].pc = "done"
        /\ Len(worker[c].stdout_content) > env[task[c].repl_env].config.truncate_output_chars
        /\ worker[c].result.stdout # worker[c].stdout_content
        /\ worker[d].stdout_content # <<>>
        /\ Len(worker[d].stdout_content) = env[task[d].repl_env].config.truncate_output_chars
        /\ worker[d].result.stdout = worker[d].stdout_content

\* C16: denied capabilities. Code that calls eval yields a result with
\* success = False and an error text, and execute returns.
C16_DeniedCapabilityFails ==
    \A c \in Calls, v \in Val :
        (Evaluated(c) /\ task[c].code = <<Call("eval", v)>>)
        => /\ ~worker[c].success
           /\ worker[c].stderr_content # <<>>
           /\ worker[c].exc = NoExc

\* C17: delegate disabled. In a session whose config has no sub_model the name
\* llm_query is not bound, and code that calls it yields success = False with
\* the error text of a NameError.
C17_DelegateDisabled ==
    /\ \A s \in Sessions :
         (env[s].created /\ env[s].config.sub_model = NoneValue)
         => Combined(env[s].globals, env[s].locals)["llm_query"] = Undef
    /\ \A c \in Calls, r \in Replies :
         ( /\ Evaluated(c)
           /\ task[c].code = <<Call("llm_query", r)>>
           /\ env[task[c].repl_env].config.sub_model = NoneValue )
         => /\ ~worker[c].success
            /\ worker[c].stderr_content = ErrorText("NameError")
            /\ worker[c].exc = NoExc

\* C17 witness: a call of llm_query was evaluated in a session without sub_model
C17_Witness ==
    \E c \in Calls, r \in Replies :
        /\ Evaluated(c)
        /\ task[c].code = <<Call("llm_query", r)>>
        /\ env[task[c].repl_env].config.sub_model = NoneValue
        /\ ~worker[c].success

\* C18: delegate failures are data. When the sub-model fails or gives an empty
\* response, llm_query raises nothing and returns an error string.
C18_DelegateFailureIsErrorString ==
    \A c \in Calls, r \in {ModelError, ModelEmpty} :
        ( /\ Evaluated(c)
          /\ task[c].code = <<Call("llm_query", r)>>
          /\ env[task[c].repl_env].config.sub_model # NoneValue )
        => /\ worker[c].success
           /\ worker[c].value = QueryErrorText

\* C19: context is read-only. Whatever code has run, the value the next call
\* finds under the name context is the payload the session was built with.
C19_ContextReadOnly ==
    \A s \in Sessions :
        env[s].created
        => Combined(env[s].globals, env[s].locals)["context"]
             = deps[task[s].deps].value.context

\* C20: empty submission. execute("") returns success = True with empty
\* captured output and errors.
C20_EmptySubmission ==
    \A c \in Calls :
        (Evaluated(c) /\ task[c].code = <<Blank>>)
        => /\ worker[c].success
           /\ worker[c].stdout_content = <<>>
           /\ worker[c].stderr_content = <<>>

\* execute of call c has returned a REPLResult
Finished(c) == worker[c].pc = "done" /\ worker[c].exc = NoExc /\ task[c].code # <<>>

\* C21: snapshot fidelity. The locals of a call's result are the variable store
\* as the call's own evaluation left it: a call whose code is x = v and
\* succeeded reports x = v.
C21_SnapshotFidelity ==
    \A c \in Calls, x \in UserNames, v \in Val :
        (Finished(c) /\ task[c].code = <<Assign(x, v)>> /\ worker[c].success)
        => worker[c].result.locals[x] = v

\* the timed-out evaluation of call c is still inside the with block of
\* execute, holding the lock of its session
StillRunning(c) == TimedOut(c) /\ worker[c].pc \in {"entered", "ran"}

\* d is a call on the session of the timed-out evaluation of c that has not
\* entered its with block and whose answer is awaited
QueuedBehind(c, d) ==
    /\ c # d /\ StillRunning(c)
    /\ task[d].repl_env = task[c].repl_env
    /\ task[d].pc = "await" /\ worker[d].pc \in {"queued", "started"}

\* C29: queueing behind a timed-out evaluation. While it is running no other
\* call on the session enters the with block or evaluates its code; the only
\* answer such a call returns is the timeout message, its code not evaluated;
\* and unless the evaluation ends, the call does return that answer.
C29_QueuesBehindTimedOut ==
    /\ [][\A c, d \in Calls :
            /\ (c # d /\ StillRunning(c) /\ task[d].repl_env = task[c].repl_env)
               => /\ ~Evaluates(d)
                  /\ ~(worker[d].pc = "started" /\ worker'[d].pc # "started")
            /\ (QueuedBehind(c, d) /\ task'[d].pc = "returned")
               => task'[d].answer = TimeoutMessage /\ task'[d].code = <<>>
        ]_vars
    /\ \A c, d \in Calls : QueuedBehind(c, d) ~> (TimedOut(d) \/ ~StillRunning(c))

\* C29 witness: behind a timed-out evaluation that is still running, a later
\* call on the session has started its execute, waits for the lock, and has
\* answered with the timeout message without evaluating its code
C29_Witness ==
    \E c, d \in Calls :
        /\ c < d
        /\ StillRunning(c)
        /\ task[d].repl_env = task[c].repl_env
        /\ worker[d].pc = "started"
        /\ TimedOut(d) /\ task[d].code = <<>>

\* C30: no late start. The execute of a call does not enter its with block,
\* where the code is evaluated, after execute_code has returned its answer.
C30_NoLateStart ==
    [][\A c \in Calls :
          task[c].pc = "returned"
          => ~(worker[c].pc = "started" /\ worker'[c].pc = "entered")
      ]_vars

\* the names the code binds outside its import lines
BoundBy(code) == {code[i].name : i \in {j \in 1..Len(code) : code[j].op = "assign"}}

\* C22: the variables section of a call's report lists only names this call
\* bound or modified.
C22_ReportsOwnVariablesOnly ==
    \A c \in Calls :
        (task[c].pc = "returned" /\ task[c].answer.kind = "report")
        => task[c].answer.vars \subseteq BoundBy(task[c].code)

\* C23: no-output sentinel. A result with blank output, blank errors and no
\* user variable is answered with the fixed "no output" string.
C23_NoOutputSentinel ==
    \A c \in Calls :
        ( /\ task[c].pc = "returned"
          /\ worker[c].exc = NoExc
          /\ StripsToEmpty(worker[c].result.stdout)
          /\ StripsToEmpty(worker[c].result.stderr)
          /\ user_vars(worker[c].result) = {} )
        => task[c].answer.kind = "no output"

\* a timeout above zero, a limit above zero, and no empty model id
Valid(config) ==
    /\ config.code_timeout > 0
    /\ config.truncate_output_chars > 0
    /\ config.sub_model # EmptyString

\* C24: configuration validation. No bundle is built from a configuration with
\* a non-positive timeout or limit or an empty model id, and every session's
\* configuration has a positive timeout and limit.
C24_ConfigurationValidated ==
    /\ \A b \in Bundles : deps[b].state # "unborn" => Valid(deps[b].value.config)
    /\ \A s \in Sessions : env[s].created => Valid(env[s].config)

\* no other call has entered the with block of its execute
Alone(c) == \A d \in Calls : d # c => worker[d].pc \in {"none", "queued", "started"}

\* the number of print statements in the code
Prints(code) == Cardinality({i \in 1..Len(code) : code[i].op = "print"})

\* C25: every statement is executed at most once. What a call captured is no
\* longer than one line for each print statement of its code, and one for the
\* echo of a successful run.
C25_ExecutedAtMostOnce ==
    \A c \in Calls :
        (Evaluated(c) /\ Alone(c))
        => Len(worker[c].stdout_content)
             <= 2 * Prints(task[c].code)
                + (IF worker[c].success /\ EndsWithExpression(task[c].code) THEN 2 ELSE 0)

\* the lines of the code before its last line
Preceding(code) == SubSeq(code, 1, Len(code) - 1)

\* C26: when the trailing line is echoed, every line before it has been
\* executed once, in order, before it is evaluated: the value echoed is the
\* trailing line's value in the namespace those lines leave, and that
\* namespace is what the call merges into the store.
C26_PrecedingLinesExecutedOnce ==
    [][\A c \in Calls :
          LET s == task[c].repl_env
              code == task'[c].code
              pre == ExecLines(Preceding(code), Combined(env[s].globals, env[s].locals))
          IN ( /\ Evaluates(c)
               /\ worker'[c].success
               /\ EndsWithExpression(code)
               /\ SelectSeq(code, IsImportLine) = <<>>
               /\ worker'[c].value # NoneValue )
             => /\ worker'[c].value = EvalLine(code[Len(code)], pre.ns).value
                /\ env'[s].locals = MergeLocals(env[s].globals, env[s].locals, pre.ns)
      ]_vars

\* C27: last binding wins. After a successful call whose last line binds n to
\* v, the name n resolves to v for the next call on the session.
C27_LastBindingWins ==
    [][\A c \in Calls :
          LET s == task[c].repl_env
              code == task'[c].code
              last == code[Len(code)]
          IN (Evaluates(c) /\ worker'[c].success /\ last.op = "assign")
             => Combined(env'[s].globals, env'[s].locals)[last.name] = last.val
      ]_vars

\* C28: state unchanged on error. A call whose code raises leaves the
\* variable store of the session as it was.
C28_StoreUnchangedOnError ==
    [][\A c \in Calls :
          (Evaluates(c) /\ ~worker'[c].success)
          => env'[task[c].repl_env].locals = env[task[c].repl_env].locals
      ]_vars

\* C28 witness: a call bound x and then raised, and the store has no x
C28_Witness ==
    \E c \in Calls, v \in Val :
        /\ Evaluated(c)
        /\ task[c].code = <<Assign("x", v), Raise>>
        /\ ~worker[c].success
        /\ env[task[c].repl_env].locals["x"] = Undef

\* C31: output attribution. The captured output of a call is the text its own
\* code wrote: the echo of its trailing expression when the run succeeded with
\* a value, and nothing otherwise (no program here has a print statement).
C31_OutputAttribution ==
    \A c \in Calls :
        Evaluated(c)
        => worker[c].stdout_content
             = IF worker[c].success /\ worker[c].value # NoneValue
               THEN Repr(worker[c].value) \o <<Newline>>
               ELSE <<>>

\* C32: factory sub-model. When the toolset has a sub_model and the bundle's
\* config has none, the session's config is the bundle's config with the
\* toolset's sub_model, every other field unchanged.
C32_OverrideKeepsOtherFields ==
    \A s \in Sessions :
        LET config == deps[task[s].deps].value.config
        IN (env[s].created /\ Truthy(toolset.sub_model) /\ ~Truthy(config.sub_model))
           => env[s].config = [config EXCEPT !.sub_model = toolset.sub_model]

C34_ScratchDirectoryOutlivesEvaluation ==
    \A c \in Calls :
        worker[c].pc \in {"entered", "ran"} => temp_dir[task[c].repl_env]

====
